---------------------------- MODULE Spec2Model ----------------------------
(***************************************************************************)
(* The ESI processor of src/esi/src/lib.rs as a state machine.             *)
(*                                                                         *)
(* Processor::execute_esi renders a document to the client stream;         *)
(* Processor::execute_esi_fragment drives the tag parser over one token    *)
(* stream and, for every esi:include, fetches the fragment and re-enters   *)
(* itself over the fragment's body.  The call stack of the recursion is    *)
(* the variable stack; pc is the position of the innermost call.           *)
(***************************************************************************)
EXTENDS Integers, Sequences, FiniteSets, TLC

(***************************************************************************)
(* Bounds of the model.                                                    *)
(***************************************************************************)
MaxLen == 2         \* longest token stream (document or fragment body)
MaxTokens == 4      \* most tokens in the document and the fragment bodies together
MaxDepth == 4       \* deepest recursion followed when fragments include each other

\* The fragment URLs, outermost first, and the document.
UrlList == <<"/a", "/b">>
Urls == {UrlList[i] : i \in DOMAIN UrlList}
RootDoc == "/"
Rank(u) == IF u = RootDoc THEN 0 ELSE CHOOSE i \in DOMAIN UrlList : UrlList[i] = u

(***************************************************************************)
(* ExecutionError (lib.rs 17-32).  a carries the status code of            *)
(* UnexpectedStatus and is 0 otherwise.  NoError stands for "no error is   *)
(* being returned" and Ok for the Ok(()) of execute_esi.                   *)
(***************************************************************************)
NoError == [e |-> "none", a |-> 0]
Ok == [e |-> "Ok", a |-> 0]
UnexpectedStatus(code) == [e |-> "UnexpectedStatus", a |-> code]
RequestError == [e |-> "RequestError", a |-> 0]
XMLError == [e |-> "XMLError", a |-> 0]
DuplicateTagAttribute == [e |-> "DuplicateTagAttribute", a |-> 0]
MissingRequiredParameter == [e |-> "MissingRequiredParameter", a |-> 0]

(***************************************************************************)
(* Raw tokens of a stream.  A token outside the namespace is opaque        *)
(* markup; a namespaced include tag carries its attributes as written.     *)
(***************************************************************************)
Attr(n, v) == [n |-> n, v |-> v]
IncludeTag(attrs) == [k |-> "esi", attrs |-> attrs]
MarkupTok == [k |-> "xml", attrs |-> <<>>]

AltAttr(alt) == IF alt = <<>> THEN <<>> ELSE <<Attr("alt", alt[1])>>
OnErrorAttr(c) == IF c THEN <<Attr("onerror", "continue")>> ELSE <<>>

\* The targets a stream of rank r may name: the fragment graph is acyclic.
\* An alt, when present, names a URL of higher rank than src.
Targets(r) == {u \in Urls : Rank(u) > r}
ValidTags(r) ==
    UNION {{IncludeTag(<<Attr("src", s)>> \o AltAttr(alt) \o OnErrorAttr(c)) :
                alt \in {<<>>} \cup {<<u>> : u \in Targets(Rank(s))},
                c \in BOOLEAN} : s \in Targets(r)}
DuplicateTag == IncludeTag(<<Attr("src", "/x"), Attr("src", "/x")>>)
MissingTag == IncludeTag(<<Attr("alt", "/x"), Attr("onerror", "continue")>>)
EmptySrcTag == IncludeTag(<<Attr("src", "")>>)
\* The tags that fail validation.  The document tries each of them; a fragment
\* body tries one, since the engine passes every parser error on alike.
InvalidTags(r) ==
    IF r = 0 THEN {DuplicateTag, MissingTag, EmptySrcTag} ELSE {DuplicateTag}
Alphabet(r) == {MarkupTok} \cup ValidTags(r) \cup InvalidTags(r)
SeqsUpTo(S, n) == UNION {[1..m -> S] : m \in 0..n}
Streams(r) == SeqsUpTo(Alphabet(r), MaxLen)
AllStreams == UNION {Streams(Rank(u)) : u \in Urls}

(***************************************************************************)
(* The fetch collaborator's answer for a URL: a response with a status, or *)
(* a transport failure.                                                    *)
(***************************************************************************)
Statuses == {200, 404}
Outcomes == {[k |-> "resp", status |-> s] : s \in Statuses}
                \cup {[k |-> "senderr", status |-> 0]}

VARIABLES
    root,       \* the document's token stream
    body,       \* body[u]: the token stream of the response for URL u
    net,        \* net[u]: the fetch collaborator's outcome for URL u
    stack,      \* the active execute_esi_fragment calls, innermost last
    pc,         \* position of the innermost call
    ev,         \* the event handed to the callback
    err,        \* the error being returned, NoError if none
    out,        \* chunks the output sink has accepted, in order
    flushed,    \* how many of them have been flushed
    fetches,    \* URLs passed to request_handler, in order
    sinkOk,     \* the sink has accepted every write and flush so far
    result,     \* what execute_esi returned
    originals,  \* the original_request of each active call, innermost last
    requests    \* the requests passed to request_handler, in order

vars == <<root, body, net, stack, pc, ev, err, out, flushed, fetches, sinkOk, result,
          originals, requests>>
inputs == <<root, body, net>>


Stream(d) == IF d = RootDoc THEN root ELSE body[d]

(***************************************************************************)
(* The tag parser (mod parse, called at lib.rs 92).  Attributes are        *)
(* collected in order and a repeated name is rejected at once; src is      *)
(* required and non-empty when the directive completes.                    *)
(***************************************************************************)
HasDuplicate(attrs) ==
    \E i, j \in DOMAIN attrs : i < j /\ attrs[i].n = attrs[j].n
AttrValue(attrs, n) ==
    IF \E i \in DOMAIN attrs : attrs[i].n = n
    THEN <<attrs[CHOOSE i \in DOMAIN attrs : attrs[i].n = n].v>>
    ELSE <<>>

NoEvent == [k |-> "none", src |-> "", alt |-> <<>>, coe |-> FALSE]
XmlEvent == [k |-> "xml", src |-> "", alt |-> <<>>, coe |-> FALSE]
Include(src, alt, coe) == [k |-> "include", src |-> src, alt |-> alt, coe |-> coe]

\* Mutant of ParseTag: the attributes are not validated.
ParseTag_Unchecked(attrs) ==
    [err |-> NoError,
     event |-> Include(IF AttrValue(attrs, "src") = <<>> THEN ""
                       ELSE AttrValue(attrs, "src")[1],
                       AttrValue(attrs, "alt"),
                       AttrValue(attrs, "onerror") = <<"continue">>)]

\* Tag::Include from the attributes of one include tag, or the error.
ParseTag(attrs) ==
    IF HasDuplicate(attrs)
    THEN [err |-> DuplicateTagAttribute, event |-> NoEvent]
    ELSE IF AttrValue(attrs, "src") \in {<<>>, <<"">>}
    THEN [err |-> MissingRequiredParameter, event |-> NoEvent]
    ELSE [err |-> NoError,
          event |-> Include(AttrValue(attrs, "src")[1],
                            AttrValue(attrs, "alt"),
                            AttrValue(attrs, "onerror") = <<"continue">>)]

\* One step of parse_tags over the tokens of d after the first pos of them:
\* end of input, an error, or the next event for the callback.
ParseStep(d, pos) ==
    IF pos >= Len(Stream(d))
    THEN [k |-> "eof", err |-> NoError, event |-> NoEvent]
    ELSE LET tok == Stream(d)[pos + 1] IN
         IF tok.k = "xml"
         THEN [k |-> "event", err |-> NoError, event |-> XmlEvent]
         ELSE LET t == ParseTag(tok.attrs) IN
              IF t.err # NoError
              THEN [k |-> "error", err |-> t.err, event |-> NoEvent]
              ELSE [k |-> "event", err |-> NoError, event |-> t.event]

(***************************************************************************)
(* The bytes of the markup token at position pos of stream d, and the      *)
(* fixed notice of lib.rs 74.                                              *)
(***************************************************************************)
Chunk(d, pos) == <<d, pos>>
ErrorNotice == <<"An error occurred while constructing this document.", 0>>

Frame(d, pos) == [doc |-> d, pos |-> pos]
Last(s) == s[Len(s)]
Top == Last(stack)
Pop(s) == SubSeq(s, 1, Len(s) - 1)
ReplaceTop(s, f) == [s EXCEPT ![Len(s)] = f]

(***************************************************************************)
(* send_esi_fragment_request (lib.rs 162-185).                             *)
(***************************************************************************)
IsSuccess(status) == status >= 200 /\ status <= 299

\* The Result of send_esi_fragment_request for url: NoError for Ok(resp).
SendResult(url) ==
    IF net[url].k = "senderr" THEN RequestError
    ELSE IF IsSuccess(net[url].status) THEN NoError
    ELSE UnexpectedStatus(net[url].status)

(***************************************************************************)
(* Requests.  The client's request has a body, is not forced to pass and   *)
(* carries the client's Host header; other stands for its method and its   *)
(* other headers.  send_esi_fragment_request builds the request for a      *)
(* fragment from the original_request it is given (lib.rs 168-175).        *)
(***************************************************************************)
HostOf(url) == <<"host", url>>
Request(url, host, hasBody, pass, other) ==
    [url |-> url, host |-> host, body |-> hasBody, pass |-> pass, other |-> other]
OriginalRequest == Request(RootDoc, HostOf(RootDoc), TRUE, FALSE, "client")
CloneWithoutBody(r) == [r EXCEPT !.body = FALSE]
WithUrl(r, url) == [r EXCEPT !.url = url]
WithPass(r, pass) == [r EXCEPT !.pass = pass]
SetHostHeader(r, host) == [r EXCEPT !.host = host]

\* Mutant of SubRequest: the Host header of the original request is kept.
SubRequest_HostKept(original, url) ==
    WithPass(WithUrl(CloneWithoutBody(original), url), TRUE)

SubRequest(original, url) ==
    SetHostHeader(WithPass(WithUrl(CloneWithoutBody(original), url), TRUE),
                  HostOf(url))

\* The URLs the tags of a stream name.  A URL that no stream names is never
\* requested, so the initial states fix its outcome.
Named(stream) ==
    UNION {{stream[i].attrs[j].v : j \in DOMAIN stream[i].attrs} : i \in DOMAIN stream}
\* The tokens of the bodies of the URLs in U together.
RECURSIVE TotalLen(_)
TotalLen(U) ==
    IF U = {} THEN 0
    ELSE LET u == CHOOSE v \in U : TRUE IN Len(body[u]) + TotalLen(U \ {u})

Init ==
    /\ body \in [Urls -> AllStreams]
    /\ \A u \in Urls : body[u] \in Streams(Rank(u))
    /\ TotalLen(Urls) <= MaxTokens
    /\ net \in [Urls -> Outcomes]
    /\ \A u \in Urls : SendResult(u) # NoError => body[u] = <<>>
    /\ root \in Streams(0)
    /\ TotalLen(Urls) + Len(root) <= MaxTokens
    /\ \A u \in Urls :
          u \notin Named(root) \cup UNION {Named(body[v]) : v \in Urls}
             => net[u].k = "senderr"
    /\ stack = <<Frame(RootDoc, 0)>>
    /\ pc = "parse"
    /\ ev = NoEvent
    /\ err = NoError
    /\ out = <<>>
    /\ flushed = 0
    /\ fetches = <<>>
    /\ sinkOk = TRUE
    /\ result = NoError
    /\ originals = <<OriginalRequest>>
    /\ requests = <<>>

\* Mutant of ParseNext: the end of the input is not noticed and the parser
\* waits for a further token.
ParseNext_EofIgnored ==
    /\ pc = "parse"
    /\ LET p == ParseStep(Top.doc, Top.pos) IN
         \/ /\ p.k = "event"
            /\ stack' = ReplaceTop(stack, Frame(Top.doc, Top.pos + 1))
            /\ UNCHANGED originals
            /\ ev' = p.event
            /\ pc' = IF p.event.k = "xml" THEN "write" ELSE "src"
            /\ err' = NoError
         \/ /\ p.k = "error"
            /\ pc' = "return"
            /\ err' = p.err
            /\ ev' = NoEvent
            /\ UNCHANGED <<stack, originals>>
         \/ /\ p.k = "eof"
            /\ UNCHANGED <<stack, originals, pc, err, ev>>
    /\ UNCHANGED <<inputs, out, flushed, fetches, requests, sinkOk, result>>

(***************************************************************************)
(* parse_tags takes the next token of the innermost stream (lib.rs 92-96): *)
(* it calls the callback with the event, or returns at the end of input    *)
(* or on a parse error (lib.rs 157-159).                                   *)
(***************************************************************************)
ParseNext ==
    /\ pc = "parse"
    /\ LET p == ParseStep(Top.doc, Top.pos) IN
         \/ /\ p.k = "event"
            /\ stack' = ReplaceTop(stack, Frame(Top.doc, Top.pos + 1))
            /\ UNCHANGED originals
            /\ ev' = p.event
            /\ pc' = IF p.event.k = "xml" THEN "write" ELSE "src"
            /\ err' = NoError
         \/ /\ p.k # "event"
            /\ pc' = "return"
            /\ err' = p.err
            /\ ev' = NoEvent
            /\ UNCHANGED <<stack, originals>>
    /\ UNCHANGED <<inputs, out, flushed, fetches, requests, sinkOk, result>>

\* Mutants of GiveUp: continue_on_error is ignored, one way or the other.
GiveUp_AlwaysAborts(coe, e) == [pc |-> "return", err |-> e]
GiveUp_AlwaysContinues(coe, e) == [pc |-> "parse", err |-> NoError]

(***************************************************************************)
(* What the callback does when the last request for a directive has        *)
(* failed with e (lib.rs 118-134): skip the directive or return the error. *)
(***************************************************************************)
GiveUp(coe, e) ==
    IF coe
    THEN [pc |-> "parse", err |-> NoError]
    ELSE [pc |-> "return", err |-> e]

\* Mutant of Enter: the response body is not rendered.
Enter_BodyDiscarded(url) ==
    /\ pc' = "parse"
    /\ err' = NoError
    /\ ev' = NoEvent
    /\ UNCHANGED <<stack, originals>>

\* Mutant of Enter: the response body is put aside and rendered after the
\* caller's remaining events.
Enter_Deferred(url) ==
    /\ stack' = <<Frame(url, 0)>> \o stack
    /\ originals' = <<CloneWithoutBody(Last(originals))>> \o originals
    /\ pc' = "parse"
    /\ err' = NoError
    /\ ev' = NoEvent

\* Mutant of Enter: a fragment that is already being rendered is not
\* entered again (a cycle guard).
Enter_CycleGuard(url) ==
    /\ stack' = IF \E k \in DOMAIN stack : stack[k].doc = url
                THEN stack ELSE Append(stack, Frame(url, 0))
    /\ originals' = IF \E k \in DOMAIN stack : stack[k].doc = url
                    THEN originals
                    ELSE Append(originals, CloneWithoutBody(Last(originals)))
    /\ pc' = "parse"
    /\ err' = NoError
    /\ ev' = NoEvent

\* lib.rs 138-145: re-enter execute_esi_fragment over the response body.
Enter(url) ==
    /\ stack' = Append(stack, Frame(url, 0))
    /\ originals' = Append(originals, CloneWithoutBody(Last(originals)))
    /\ pc' = "parse"
    /\ err' = NoError
    /\ ev' = NoEvent

\* After a failed src request (lib.rs 108-135).
AfterSrcFailure(e) ==
    IF ev.alt # <<>>
    THEN [pc |-> "alt", err |-> e]
    ELSE GiveUp(ev.coe, e)

(***************************************************************************)
(* Event::ESI(Tag::Include): the request for src (lib.rs 102-107).         *)
(***************************************************************************)
SendSrc ==
    /\ pc = "src"
    /\ fetches' = Append(fetches, ev.src)
    /\ requests' = Append(requests, SubRequest(Last(originals), ev.src))
    /\ LET r == SendResult(ev.src) IN
         \/ /\ r = NoError
            /\ Enter(ev.src)
         \/ /\ r # NoError
            /\ pc' = AfterSrcFailure(r).pc
            /\ err' = AfterSrcFailure(r).err
            /\ ev' = IF AfterSrcFailure(r).pc = "alt" THEN ev ELSE NoEvent
            /\ UNCHANGED <<stack, originals>>
    /\ UNCHANGED <<inputs, out, flushed, sinkOk, result>>

\* Mutant of SendAlt: without continue_on_error the error of the src request
\* is returned even though the alt request succeeded.
SendAlt_SrcErrorKept ==
    /\ pc = "alt"
    /\ fetches' = Append(fetches, ev.alt[1])
    /\ requests' = Append(requests, SubRequest(Last(originals), ev.alt[1]))
    /\ LET r == SendResult(ev.alt[1]) IN
         \/ /\ r = NoError /\ ev.coe
            /\ Enter(ev.alt[1])
         \/ /\ r = NoError /\ ~ev.coe
            /\ pc' = "return"
            /\ ev' = NoEvent
            /\ UNCHANGED <<stack, originals, err>>
         \/ /\ r # NoError
            /\ pc' = GiveUp(ev.coe, r).pc
            /\ err' = GiveUp(ev.coe, r).err
            /\ ev' = NoEvent
            /\ UNCHANGED <<stack, originals>>
    /\ UNCHANGED <<inputs, out, flushed, sinkOk, result>>

\* Mutant of SendAlt: a failed alt request is sent a second time.
SendAlt_RetriesOnce ==
    /\ pc = "alt"
    /\ fetches' = Append(fetches, ev.alt[1])
    /\ requests' = Append(requests, SubRequest(Last(originals), ev.alt[1]))
    /\ LET r == SendResult(ev.alt[1]) IN
         \/ /\ r = NoError
            /\ Enter(ev.alt[1])
         \/ /\ r # NoError /\ Last(fetches) # ev.alt[1]
            /\ pc' = "alt"
            /\ err' = r
            /\ UNCHANGED <<stack, originals, ev>>
         \/ /\ r # NoError /\ Last(fetches) = ev.alt[1]
            /\ pc' = GiveUp(ev.coe, r).pc
            /\ err' = GiveUp(ev.coe, r).err
            /\ ev' = NoEvent
            /\ UNCHANGED <<stack, originals>>
    /\ UNCHANGED <<inputs, out, flushed, sinkOk, result>>

\* Mutant of SendAlt: when the alt request fails too, the error of the src
\* request is the one returned.
SendAlt_ReportsSrcError ==
    /\ pc = "alt"
    /\ fetches' = Append(fetches, ev.alt[1])
    /\ requests' = Append(requests, SubRequest(Last(originals), ev.alt[1]))
    /\ LET r == SendResult(ev.alt[1]) IN
         \/ /\ r = NoError
            /\ Enter(ev.alt[1])
         \/ /\ r # NoError
            /\ pc' = GiveUp(ev.coe, err).pc
            /\ err' = GiveUp(ev.coe, err).err
            /\ ev' = NoEvent
            /\ UNCHANGED <<stack, originals>>
    /\ UNCHANGED <<inputs, out, flushed, sinkOk, result>>

(***************************************************************************)
(* The request for alt after src has failed (lib.rs 110-126).              *)
(***************************************************************************)
SendAlt ==
    /\ pc = "alt"
    /\ fetches' = Append(fetches, ev.alt[1])
    /\ requests' = Append(requests, SubRequest(Last(originals), ev.alt[1]))
    /\ LET r == SendResult(ev.alt[1]) IN
         \/ /\ r = NoError
            /\ Enter(ev.alt[1])
         \/ /\ r # NoError
            /\ pc' = GiveUp(ev.coe, r).pc
            /\ err' = GiveUp(ev.coe, r).err
            /\ ev' = NoEvent
            /\ UNCHANGED <<stack, originals>>
    /\ UNCHANGED <<inputs, out, flushed, sinkOk, result>>

\* Mutant of WriteEvent: the event is not written.
WriteEvent_Dropped ==
    /\ pc = "write"
    /\ pc' = "flush"
    /\ ev' = NoEvent
    /\ UNCHANGED <<inputs, stack, originals, err, out, flushed, fetches, requests, sinkOk, result>>

(***************************************************************************)
(* Event::XML: xml_writer.write_event(event)? (lib.rs 151).  The sink      *)
(* accepts the chunk or the write fails.                                   *)
(***************************************************************************)
WriteEvent ==
    /\ pc = "write"
    /\ \/ /\ out' = Append(out, Chunk(Top.doc, Top.pos))
          /\ pc' = "flush"
          /\ UNCHANGED <<err, sinkOk>>
       \/ /\ pc' = "return"
          /\ err' = XMLError
          /\ sinkOk' = FALSE
          /\ UNCHANGED out
    /\ ev' = NoEvent
    /\ UNCHANGED <<inputs, stack, originals, flushed, fetches, requests, result>>

\* Mutant of FlushEvent: the sink is not flushed after the event.
FlushEvent_Skipped ==
    /\ pc = "flush"
    /\ pc' = "parse"
    /\ UNCHANGED <<inputs, stack, originals, ev, err, out, flushed, fetches, requests, sinkOk, result>>

(***************************************************************************)
(* xml_writer.inner().flush().expect(..) (lib.rs 152): a failed flush      *)
(* panics.                                                                 *)
(***************************************************************************)
FlushEvent ==
    /\ pc = "flush"
    /\ \/ /\ flushed' = Len(out)
          /\ pc' = "parse"
          /\ UNCHANGED sinkOk
       \/ /\ pc' = "panic"
          /\ sinkOk' = FALSE
          /\ UNCHANGED flushed
    /\ UNCHANGED <<inputs, stack, originals, ev, err, out, fetches, requests, result>>

\* Mutant of Return: the callback drops the error of the nested call
\* (lib.rs 145 without its `?`).
Return_ErrorDropped ==
    /\ pc = "return"
    /\ stack' = Pop(stack)
    /\ originals' = Pop(originals)
    /\ \/ /\ Len(stack) > 1
          /\ pc' = "parse"
          /\ err' = NoError
          /\ UNCHANGED result
       \/ /\ Len(stack) = 1
          /\ err = NoError
          /\ pc' = "done"
          /\ result' = Ok
          /\ UNCHANGED err
       \/ /\ Len(stack) = 1
          /\ err # NoError
          /\ pc' = "notice"
          /\ UNCHANGED <<result, err>>
    /\ UNCHANGED <<inputs, ev, out, flushed, fetches, requests, sinkOk>>

\* Mutant of Return: after the error of a nested call the caller's parser
\* goes on with its next event.
Return_CallerResumes ==
    /\ pc = "return"
    /\ stack' = Pop(stack)
    /\ originals' = Pop(originals)
    /\ \/ /\ Len(stack) > 1
          /\ pc' = "parse"
          /\ UNCHANGED result
       \/ /\ Len(stack) = 1
          /\ err = NoError
          /\ pc' = "done"
          /\ result' = Ok
       \/ /\ Len(stack) = 1
          /\ err # NoError
          /\ pc' = "notice"
          /\ UNCHANGED result
    /\ UNCHANGED <<inputs, ev, err, out, flushed, fetches, requests, sinkOk>>

\* Mutant of Return: execute_esi writes the notice after a rendering that
\* ended without error, too.
Return_NoticeOnSuccess ==
    /\ pc = "return"
    /\ stack' = Pop(stack)
    /\ originals' = Pop(originals)
    /\ \/ /\ Len(stack) > 1
          /\ pc' = IF err = NoError THEN "parse" ELSE "return"
          /\ UNCHANGED result
       \/ /\ Len(stack) = 1
          /\ pc' = "notice"
          /\ UNCHANGED result
    /\ UNCHANGED <<inputs, ev, err, out, flushed, fetches, requests, sinkOk>>

(***************************************************************************)
(* The innermost execute_esi_fragment returns (lib.rs 157-159).  A nested  *)
(* call returns into the callback's `?` (lib.rs 145), which continues with *)
(* the next event or returns the error in turn; the outermost call returns *)
(* to execute_esi (lib.rs 65-72).                                          *)
(***************************************************************************)
Return ==
    /\ pc = "return"
    /\ stack' = Pop(stack)
    /\ originals' = Pop(originals)
    /\ \/ /\ Len(stack) > 1
          /\ pc' = IF err = NoError THEN "parse" ELSE "return"
          /\ UNCHANGED result
       \/ /\ Len(stack) = 1
          /\ err = NoError
          /\ pc' = "done"
          /\ result' = Ok
       \/ /\ Len(stack) = 1
          /\ err # NoError
          /\ pc' = "notice"
          /\ UNCHANGED result
    /\ UNCHANGED <<inputs, ev, err, out, flushed, fetches, requests, sinkOk>>

\* Mutant of WriteNotice: the notice replaces what was streamed.
WriteNotice_Replaces ==
    /\ pc = "notice"
    /\ out' = <<ErrorNotice>>
    /\ pc' = "noticeflush"
    /\ UNCHANGED <<inputs, stack, originals, ev, err, flushed, fetches, requests, result, sinkOk>>

(***************************************************************************)
(* execute_esi's Err arm: xml_writer.write(notice)? (lib.rs 74).           *)
(***************************************************************************)
WriteNotice ==
    /\ pc = "notice"
    /\ \/ /\ out' = Append(out, ErrorNotice)
          /\ pc' = "noticeflush"
          /\ UNCHANGED <<result, sinkOk>>
       \/ /\ pc' = "done"
          /\ result' = XMLError
          /\ sinkOk' = FALSE
          /\ UNCHANGED out
    /\ UNCHANGED <<inputs, stack, originals, ev, err, flushed, fetches, requests>>

(***************************************************************************)
(* flush().expect(..) of the notice, then Err(err) (lib.rs 75-79).         *)
(***************************************************************************)
FlushNotice ==
    /\ pc = "noticeflush"
    /\ \/ /\ flushed' = Len(out)
          /\ pc' = "done"
          /\ result' = err
          /\ UNCHANGED sinkOk
       \/ /\ pc' = "panic"
          /\ sinkOk' = FALSE
          /\ UNCHANGED <<flushed, result>>
    /\ UNCHANGED <<inputs, stack, originals, ev, err, out, fetches, requests>>

Next ==
    \/ ParseNext
    \/ SendSrc
    \/ SendAlt
    \/ WriteEvent
    \/ FlushEvent
    \/ Return
    \/ WriteNotice
    \/ FlushNotice

Spec == Init /\ [][Next]_vars

(***************************************************************************)
(* The program runs on: it is one thread of synchronous calls, and the     *)
(* parser, request_handler and the sink each return when called.           *)
(***************************************************************************)
FairSpec == Spec /\ WF_vars(Next)

(***************************************************************************)
(* The same program over fragments that may include each other: a tag of   *)
(* any stream may name any URL.  The recursion of lib.rs 138-145 has no    *)
(* bound of its own; the model follows it to MaxDepth nested calls.        *)
(***************************************************************************)
CyclicTags ==
    UNION {{IncludeTag(<<Attr("src", s)>> \o AltAttr(alt)) :
                alt \in {<<>>} \cup {<<u>> : u \in Urls \ {s}}} : s \in Urls}
CyclicAlphabet == {MarkupTok} \cup CyclicTags
CyclicStreams == SeqsUpTo(CyclicAlphabet, MaxLen)

InitCyclic ==
    /\ body \in [Urls -> CyclicStreams]
    /\ TotalLen(Urls) <= MaxTokens
    /\ net \in [Urls -> Outcomes]
    /\ \A u \in Urls : SendResult(u) # NoError => body[u] = <<>>
    /\ root \in CyclicStreams
    /\ TotalLen(Urls) + Len(root) <= MaxTokens
    /\ \A u \in Urls :
          u \notin Named(root) \cup UNION {Named(body[v]) : v \in Urls}
             => net[u].k = "senderr"
    /\ stack = <<Frame(RootDoc, 0)>>
    /\ pc = "parse"
    /\ ev = NoEvent
    /\ err = NoError
    /\ out = <<>>
    /\ flushed = 0
    /\ fetches = <<>>
    /\ sinkOk = TRUE
    /\ result = NoError
    /\ originals = <<OriginalRequest>>
    /\ requests = <<>>

NextCyclic ==
    \/ ParseNext
    \/ SendSrc /\ Len(stack') <= MaxDepth
    \/ SendAlt /\ Len(stack') <= MaxDepth
    \/ WriteEvent
    \/ FlushEvent
    \/ Return
    \/ WriteNotice
    \/ FlushNotice

SpecCyclic == InitCyclic /\ [][NextCyclic]_vars

(***************************************************************************)
(* Reference definitions for the properties below.                         *)
(***************************************************************************)
IsPrefix(s, t) == Len(s) <= Len(t) /\ SubSeq(t, 1, Len(s)) = s
Range(s) == {s[i] : i \in DOMAIN s}
AllDocs == {RootDoc} \cup Urls
NamedUrls == Urls \cap UNION {Named(Stream(d)) : d \in AllDocs}
IsInclude(tok) == tok.k = "esi" /\ ParseTag(tok.attrs).err = NoError
IncludeOf(tok) == ParseTag(tok.attrs).event

\* The depth-first flattening of stream d from token i on: markup as it is,
\* every include replaced by the flattening of the stream its src names.
RECURSIVE FlattenFrom(_, _)
FlattenFrom(d, i) ==
    IF i > Len(Stream(d)) THEN <<>>
    ELSE LET tok == Stream(d)[i] IN
         (IF tok.k = "xml" THEN <<Chunk(d, i)>>
          ELSE IF IsInclude(tok) THEN FlattenFrom(IncludeOf(tok).src, 1)
          ELSE <<>>) \o FlattenFrom(d, i + 1)
Flatten(d) == FlattenFrom(d, 1)

EveryFetchSucceeds ==
    \A u \in Urls : (net[u].k = "resp" /\ net[u].status = 200) \/ u \notin NamedUrls
EveryTagValid ==
    \A d \in AllDocs : \A i \in DOMAIN Stream(d) :
        Stream(d)[i].k = "esi" => IsInclude(Stream(d)[i])
Finished == pc = "done"

(***************************************************************************)
(* C1.  When every fetch succeeds (and every tag is a valid include, and   *)
(* the sink accepts what is written), the output is at every moment a      *)
(* prefix of the depth-first flattening of the document, and when          *)
(* execute_esi has returned it is the whole flattening and the result is   *)
(* Ok: each include is replaced at its position by the rendering of its    *)
(* fragment, at every nesting depth.                                       *)
(***************************************************************************)
C1_Flattening ==
    (sinkOk /\ EveryFetchSucceeds /\ EveryTagValid) =>
        /\ IsPrefix(out, Flatten(RootDoc))
        /\ pc \notin {"notice", "noticeflush", "alt"}
        /\ Finished => (out = Flatten(RootDoc) /\ result = Ok)

\* A finished run two levels deep: the document includes "/a", whose body
\* includes "/b" and then has markup; the markup of "/b" comes first.
C1_Witness ==
    /\ Finished /\ EveryFetchSucceeds /\ EveryTagValid /\ sinkOk
    /\ Len(root) = 1 /\ IsInclude(root[1])
    /\ IncludeOf(root[1]).src = "/a"
    /\ Len(body["/a"]) = 2 /\ IsInclude(body["/a"][1]) /\ body["/a"][2].k = "xml"
    /\ body["/b"] = <<MarkupTok>>
    /\ out = <<Chunk("/b", 1), Chunk("/a", 2)>>

(***************************************************************************)
(* C2.  Identity: for a document without directive markup the fetch        *)
(* collaborator is never called, and while the sink accepts what is        *)
(* written the output is the document's tokens in input order, the notice  *)
(* is not written, and execute_esi returns Ok with every token written.    *)
(***************************************************************************)
NoDirective == \A i \in DOMAIN root : root[i].k = "xml"
C2_Identity ==
    NoDirective =>
        /\ fetches = <<>>
        /\ sinkOk =>
              /\ out = [i \in 1..Len(out) |-> Chunk(RootDoc, i)]
              /\ pc \notin {"notice", "noticeflush", "src", "alt"}
              /\ Finished => (Len(out) = Len(root) /\ result = Ok)

C2_Witness ==
    /\ Finished /\ sinkOk
    /\ root = <<MarkupTok, MarkupTok>>
    /\ out = <<Chunk(RootDoc, 1), Chunk(RootDoc, 2)>>
    /\ result = Ok

(***************************************************************************)
(* The rendering of tokens i..n of stream d as the engine's contract       *)
(* states it: the output produced and the error that ended it (NoError     *)
(* when the tokens were rendered to the end).  An include is resolved      *)
(* from src, else from alt; when neither fetch succeeds it is skipped      *)
(* under continue_on_error and ends the rendering otherwise.               *)
(***************************************************************************)
Rendering(o, e) == [out |-> o, err |-> e]
Resolved(inc) ==
    IF SendResult(inc.src) = NoError THEN <<inc.src>>
    ELSE IF inc.alt # <<>> /\ SendResult(inc.alt[1]) = NoError THEN inc.alt
    ELSE <<>>
LastFetchError(inc) ==
    IF inc.alt # <<>> THEN SendResult(inc.alt[1]) ELSE SendResult(inc.src)

RECURSIVE RenderRange(_, _, _)
RenderRange(d, i, n) ==
    IF i > n THEN Rendering(<<>>, NoError)
    ELSE LET tok == Stream(d)[i] IN
         IF tok.k = "xml"
         THEN LET rest == RenderRange(d, i + 1, n) IN
              Rendering(<<Chunk(d, i)>> \o rest.out, rest.err)
         ELSE IF ~IsInclude(tok)
         THEN Rendering(<<>>, ParseTag(tok.attrs).err)
         ELSE LET inc == IncludeOf(tok) IN
              IF Resolved(inc) # <<>>
              THEN LET sub == RenderRange(Resolved(inc)[1], 1,
                                          Len(Stream(Resolved(inc)[1]))) IN
                   IF sub.err # NoError THEN sub
                   ELSE LET rest == RenderRange(d, i + 1, n) IN
                        Rendering(sub.out \o rest.out, rest.err)
              ELSE IF inc.coe THEN RenderRange(d, i + 1, n)
              ELSE Rendering(<<>>, LastFetchError(inc))
Render(d) == RenderRange(d, 1, Len(Stream(d)))

\* The directive an active call is processing: the token it took last.
TokenAt(f) == Stream(f.doc)[f.pos]
\* What the calls stack[1..k] had rendered before the tokens they are at.
RECURSIVE Preceding(_)
Preceding(k) ==
    IF k = 0 THEN <<>>
    ELSE Preceding(k - 1) \o RenderRange(stack[k].doc, 1, stack[k].pos - 1).out

\* The innermost call renders the alt of its caller's directive.
Parent == stack[Len(stack) - 1]
InAltFragment ==
    /\ Len(stack) >= 2
    /\ SendResult(IncludeOf(TokenAt(Parent)).src) # NoError
    /\ IncludeOf(TokenAt(Parent)).alt = <<Top.doc>>

(***************************************************************************)
(* C3.  Fallback: when the src request of a directive has failed and the   *)
(* alt request succeeds, the engine enters the alt body without raising    *)
(* an error and without writing, whatever continue_on_error is; when the   *)
(* alt body has been rendered the output is what preceded the directive    *)
(* followed by the rendering of the alt fragment, and the caller goes on   *)
(* with the event after the directive.                                     *)
(***************************************************************************)
C3_AltEntered ==
    (pc = "alt" /\ SendResult(ev.alt[1]) = NoError) =>
        /\ stack' = Append(stack, Frame(ev.alt[1], 0))
        /\ pc' = "parse" /\ err' = NoError /\ out' = out
C3_AltReturned ==
    (pc = "return" /\ err = NoError /\ InAltFragment) =>
        /\ stack' = Pop(stack)
        /\ pc' = "parse" /\ err' = NoError /\ out' = out
C3_AltRendered ==
    (pc = "return" /\ err = NoError /\ InAltFragment /\ sinkOk) =>
        out = Preceding(Len(stack) - 1) \o Render(Top.doc).out
C3_Fallback ==
    /\ []C3_AltRendered
    /\ [][C3_AltEntered /\ C3_AltReturned]_vars

\* The alt body of the document's first directive, which has no
\* continue_on_error, has been rendered; a sibling follows the directive.
C3_Witness ==
    /\ pc = "return" /\ err = NoError /\ InAltFragment /\ sinkOk
    /\ ~IncludeOf(TokenAt(Parent)).coe
    /\ Len(stack) = 2 /\ Parent.pos = 1 /\ Len(root) = 2
    /\ Render(Top.doc).out # <<>>
    /\ out = Render(Top.doc).out

(***************************************************************************)
(* The last request of the directive in hand is about to fail: the src     *)
(* request when there is no alt, the alt request otherwise.                *)
(***************************************************************************)
FinalFailure ==
    \/ pc = "src" /\ SendResult(ev.src) # NoError /\ ev.alt = <<>>
    \/ pc = "alt" /\ SendResult(ev.alt[1]) # NoError
FinalError == IF pc = "src" THEN SendResult(ev.src) ELSE SendResult(ev.alt[1])

RECURSIVE MarkupFrom(_, _)
MarkupFrom(d, i) ==
    IF i > Len(Stream(d)) THEN <<>>
    ELSE (IF Stream(d)[i].k = "xml" THEN <<Chunk(d, i)>> ELSE <<>>)
            \o MarkupFrom(d, i + 1)
\* Every directive of the document is an include with continue_on_error
\* none of whose requests succeeds.
OnlySkippedDirectives ==
    \A i \in DOMAIN root :
        root[i].k = "esi" =>
            /\ IsInclude(root[i])
            /\ IncludeOf(root[i]).coe
            /\ Resolved(IncludeOf(root[i])) = <<>>

(***************************************************************************)
(* C4.  Error tolerance: when the last request of a directive with         *)
(* continue_on_error fails (src without alt, or alt after src), the        *)
(* callback returns Ok with nothing written and the same call takes the    *)
(* next event; a document all of whose directives are skipped this way     *)
(* renders to its markup in order and execute_esi returns Ok (the sink     *)
(* accepting what is written).                                             *)
(***************************************************************************)
C4_Skipped ==
    (FinalFailure /\ ev.coe) =>
        /\ pc' = "parse" /\ err' = NoError
        /\ out' = out /\ stack' = stack
C4_SiblingsRendered ==
    (OnlySkippedDirectives /\ sinkOk) =>
        /\ IsPrefix(out, MarkupFrom(RootDoc, 1))
        /\ pc \notin {"notice", "noticeflush"}
        /\ Finished => (out = MarkupFrom(RootDoc, 1) /\ result = Ok)
C4_ErrorTolerance ==
    /\ []C4_SiblingsRendered
    /\ [][C4_Skipped]_vars

\* src and alt of the first directive have both failed, and the markup
\* after it has been written.
C4_Witness ==
    /\ Finished /\ sinkOk /\ result = Ok
    /\ Len(root) = 2 /\ IsInclude(root[1]) /\ root[2].k = "xml"
    /\ IncludeOf(root[1]).coe /\ IncludeOf(root[1]).alt # <<>>
    /\ Len(fetches) = 2
    /\ out = <<Chunk(RootDoc, 2)>>

(***************************************************************************)
(* C5.  Abort: when the last request of a directive without                *)
(* continue_on_error fails, the callback returns that request's error      *)
(* with nothing written; while a fetch error is being returned no chunk    *)
(* is written and no request is sent; and when execute_esi has returned a  *)
(* fetch error (the sink accepting what is written) the output is the      *)
(* rendering up to the failing directive followed by the notice, the last  *)
(* request sent is the one that failed, and its error is the result.       *)
(***************************************************************************)
IsFetchError(e) == e.e \in {"UnexpectedStatus", "RequestError"}
C5_Raised ==
    (FinalFailure /\ ~ev.coe) =>
        /\ pc' = "return" /\ err' = FinalError
        /\ out' = out /\ stack' = stack
C5_Unwound ==
    (pc = "return" /\ IsFetchError(err)) =>
        /\ pc' \in {"return", "notice"} /\ err' = err
        /\ out' = out /\ fetches' = fetches
C5_Ended ==
    (Finished /\ sinkOk) =>
        /\ IsFetchError(Render(RootDoc).err) <=> IsFetchError(result)
        /\ IsFetchError(result) =>
              /\ result = Render(RootDoc).err
              /\ out = Render(RootDoc).out \o <<ErrorNotice>>
              /\ fetches # <<>> /\ SendResult(Last(fetches)) = result
C5_Abort ==
    /\ []C5_Ended
    /\ [][C5_Raised /\ C5_Unwound]_vars

\* The directive that fails is inside "/a", after markup of "/a"; the markup
\* that follows the include of "/a" in the document is not written.
C5_Witness ==
    /\ Finished /\ sinkOk /\ IsFetchError(result)
    /\ Len(root) = 2 /\ IsInclude(root[1]) /\ root[2].k = "xml"
    /\ IncludeOf(root[1]).src = "/a" /\ SendResult("/a") = NoError
    /\ Len(body["/a"]) = 2 /\ body["/a"][1].k = "xml"
    /\ out = <<Chunk("/a", 1), ErrorNotice>>
    /\ fetches = <<"/a", "/b">>

(***************************************************************************)
(* C6.  After an unrecovered failure execute_esi tries once to append the  *)
(* notice, and a failure of that attempt (of the write or of the flush)    *)
(* is ignored: execute_esi still returns, and what it returns is the       *)
(* error that ended the rendering.                                         *)
(***************************************************************************)
C6_NoticeFailureIgnored ==
    /\ ~(pc = "panic" /\ stack = <<>>)
    /\ (Finished /\ err # NoError) => result = err

(***************************************************************************)
(* C7.  An error returned by the rendering of a fetched fragment is        *)
(* returned unchanged by every enclosing call, with no request sent (the   *)
(* enclosing directive's alt is not tried) and nothing written, whatever   *)
(* the enclosing directive's continue_on_error is, until it reaches        *)
(* execute_esi; with a sink that accepts what is written, the result of    *)
(* execute_esi is the error that ended the rendering.                      *)
(***************************************************************************)
C7_Unwound ==
    (pc = "return" /\ err # NoError) =>
        /\ stack' = Pop(stack)
        /\ pc' = IF Len(stack) > 1 THEN "return" ELSE "notice"
        /\ err' = err /\ fetches' = fetches /\ out' = out
C7_Reported ==
    (Finished /\ sinkOk) =>
        result = IF Render(RootDoc).err = NoError THEN Ok ELSE Render(RootDoc).err
C7_Propagation ==
    /\ []C7_Reported
    /\ [][C7_Unwound]_vars

\* The document includes "/a" with an alt and continue_on_error; the body of
\* "/a" fails to parse after its first token: the alt is never requested and
\* the parser's error is the result.
C7_Witness ==
    /\ Finished /\ sinkOk /\ result = DuplicateTagAttribute
    /\ Len(root) = 2 /\ IsInclude(root[1]) /\ root[2].k = "xml"
    /\ IncludeOf(root[1]) = Include("/a", <<"/b">>, TRUE)
    /\ SendResult("/b") = NoError
    /\ body["/a"] = <<MarkupTok, DuplicateTag>>
    /\ fetches = <<"/a">>
    /\ out = <<Chunk("/a", 1), ErrorNotice>>

(***************************************************************************)
(* C8.  Validation precedence: a request is only ever sent for a tag       *)
(* without a repeated attribute and with a non-empty src; the parser       *)
(* answers a tag that fails validation with DuplicateTagAttribute or       *)
(* MissingRequiredParameter, with no request sent; and the markup that     *)
(* precedes the tag in its stream has been written by then.                *)
(***************************************************************************)
C8_FetchOnlyValidated ==
    pc \in {"src", "alt"} =>
        /\ TokenAt(Top).k = "esi"
        /\ ~HasDuplicate(TokenAt(Top).attrs)
        /\ AttrValue(TokenAt(Top).attrs, "src") \notin {<<>>, <<"">>}
        /\ ev.src = AttrValue(TokenAt(Top).attrs, "src")[1]
InvalidNext ==
    /\ pc = "parse" /\ Top.pos < Len(Stream(Top.doc))
    /\ Stream(Top.doc)[Top.pos + 1].k = "esi"
    /\ \/ HasDuplicate(Stream(Top.doc)[Top.pos + 1].attrs)
       \/ AttrValue(Stream(Top.doc)[Top.pos + 1].attrs, "src") \in {<<>>, <<"">>}
C8_Raised ==
    InvalidNext =>
        /\ pc' = "return"
        /\ err' = IF HasDuplicate(Stream(Top.doc)[Top.pos + 1].attrs)
                  THEN DuplicateTagAttribute ELSE MissingRequiredParameter
        /\ fetches' = fetches /\ out' = out /\ stack' = stack
C8_PrecedingEmitted ==
    (pc = "return" /\ err \in {DuplicateTagAttribute, MissingRequiredParameter}) =>
        \A i \in 1..Top.pos :
            Stream(Top.doc)[i].k = "xml" => Chunk(Top.doc, i) \in Range(out)
C8_ValidationPrecedence ==
    /\ [](C8_FetchOnlyValidated /\ C8_PrecedingEmitted)
    /\ [][C8_Raised]_vars

\* A tag with alt and onerror but no src follows markup: the markup and the
\* notice are the output and no request was sent.
C8_Witness ==
    /\ Finished /\ result = MissingRequiredParameter
    /\ root = <<MarkupTok, MissingTag>>
    /\ out = <<Chunk(RootDoc, 1), ErrorNotice>>
    /\ fetches = <<>>

(***************************************************************************)
(* C9.  One parse call (one entry of stack) has one outcome.  The callback *)
(* is called for one event at a time, in input order, and only by the      *)
(* innermost call; a call that returns without error has consumed its      *)
(* whole input; once a call is returning, it takes no further event, and   *)
(* the error it returns is the error that was raised.                      *)
(***************************************************************************)
EventOf(tok) == IF tok.k = "xml" THEN XmlEvent ELSE IncludeOf(tok)
C9_InOrder ==
    /\ \A k \in 1..(Len(stack) - 1) : k <= Len(stack') => stack'[k] = stack[k]
    /\ (Len(stack') = Len(stack) /\ stack' # stack) =>
          /\ pc = "parse" /\ pc' \in {"write", "src"}
          /\ stack'[Len(stack)] = Frame(Top.doc, Top.pos + 1)
          /\ ev' = EventOf(Stream(Top.doc)[Top.pos + 1])
C9_Terminal ==
    pc = "return" =>
        /\ stack' = Pop(stack)
        /\ err # NoError => (err' = err /\ pc' \in {"return", "notice"})
C9_Consumed ==
    (pc = "return" /\ err = NoError) => Top.pos = Len(Stream(Top.doc))
C9_OneOutcome ==
    /\ []C9_Consumed
    /\ [][C9_InOrder /\ C9_Terminal]_vars

\* A parse call ends on the callback's error with an event left unread.
C9_Witness ==
    /\ pc = "return" /\ IsFetchError(err)
    /\ Len(stack) = 1 /\ Top.pos = 1 /\ Len(root) = 2
    /\ IsInclude(root[1]) /\ root[2].k = "xml"

(***************************************************************************)
(* C10.  The sink is append-only: every step leaves the output a prefix of *)
(* the new output, and the notice is never followed by anything.  When     *)
(* execute_esi has ended, the output is a prefix of the rendering that     *)
(* precedes the failing point, followed by nothing but the notice (so it   *)
(* was such a prefix all along); when it has returned an error with a      *)
(* sink that accepted what was written, the output is the whole of that    *)
(* rendering followed by the notice.                                       *)
(***************************************************************************)
C10_AppendOnly == IsPrefix(out, out')
WithoutNotice(s) ==
    IF s # <<>> /\ Last(s) = ErrorNotice THEN SubSeq(s, 1, Len(s) - 1) ELSE s
C10_Delivered ==
    /\ ErrorNotice \notin Range(WithoutNotice(out))
    /\ pc \in {"done", "panic"} =>
          IsPrefix(WithoutNotice(out), Render(RootDoc).out)
    /\ (Finished /\ result # Ok /\ sinkOk) =>
          out = Render(RootDoc).out \o <<ErrorNotice>>
C10_NeverRewound ==
    /\ []C10_Delivered
    /\ [][C10_AppendOnly]_vars

\* The rendering aborts inside "/a": the markup of the document and of "/a"
\* that precedes the failing tag stays, followed by the notice.
C10_Witness ==
    /\ Finished /\ sinkOk /\ result = DuplicateTagAttribute
    /\ Len(root) = 2 /\ root[1].k = "xml" /\ IsInclude(root[2])
    /\ body["/a"] = <<MarkupTok, DuplicateTag>>
    /\ out = <<Chunk(RootDoc, 1), Chunk("/a", 1), ErrorNotice>>

(***************************************************************************)
(* C11.  A failure of the sink while a markup event is delivered, of the   *)
(* write or of the flush that follows it, at any nesting depth, stops the  *)
(* rendering and makes execute_esi return an error: no call is abandoned   *)
(* in the middle of the rendering, and once the sink has failed the value  *)
(* execute_esi returns is an error.                                        *)
(***************************************************************************)
C11_SinkFailureReturned ==
    /\ ~(pc = "panic" /\ stack # <<>>)
    /\ (Finished /\ ~sinkOk) => result \notin {Ok, NoError}

(***************************************************************************)
(* C12.  Rendering is sequential.  A request is sent only when everything  *)
(* that precedes its directive in depth-first order has been written and   *)
(* flushed; when a nested call returns, its fragment and everything nested *)
(* in it has been rendered, directly after what preceded the directive;    *)
(* a step sends at most one request, and the request has been answered     *)
(* when the step ends; only the innermost call takes an event; and the     *)
(* output of a run that returns Ok is the depth-first rendering, so the    *)
(* outputs of sibling fragments do not interleave.  (The sink accepting    *)
(* what is written.)                                                       *)
(***************************************************************************)
C12_PrecedingWritten ==
    (pc \in {"src", "alt"} /\ sinkOk) =>
        /\ out = Preceding(Len(stack))
        /\ flushed = Len(out)
C12_FragmentComplete ==
    (pc = "return" /\ err = NoError /\ Len(stack) >= 2 /\ sinkOk) =>
        out = Preceding(Len(stack) - 1) \o Render(Top.doc).out
C12_InOrder ==
    (Finished /\ sinkOk /\ result = Ok) => out = Render(RootDoc).out
C12_OneAtATime ==
    /\ Len(fetches') <= Len(fetches) + 1
    /\ IsPrefix(fetches, fetches')
    /\ fetches' # fetches => (pc \in {"src", "alt"} /\ pc' # pc /\ out' = out)
    /\ (pc = "parse" /\ pc' \in {"write", "src"}) =>
          /\ Len(stack') = Len(stack)
          /\ Pop(stack') = Pop(stack)
C12_Sequential ==
    /\ [](C12_PrecedingWritten /\ C12_FragmentComplete /\ C12_InOrder)
    /\ [][C12_OneAtATime]_vars

\* The request for "/b" is about to be sent from inside "/a": the markup of
\* the document and of "/a" that precedes the directive has been written.
C12_Witness ==
    /\ pc = "src" /\ ev.src = "/b" /\ sinkOk
    /\ Len(stack) = 2 /\ Top = Frame("/a", 2)
    /\ fetches = <<"/a">>
    /\ out = <<Chunk(RootDoc, 1), Chunk("/a", 1)>>
    /\ flushed = 2

(***************************************************************************)
(* C13.  No cross-token buffering: at most one chunk is ever unflushed,    *)
(* and only directly after its write; whenever the parser is asked for the *)
(* next event, a request is about to be sent or a call returns, every      *)
(* chunk written has been flushed; a write is followed by nothing but the  *)
(* flush of the sink, at every nesting depth.                              *)
(***************************************************************************)
C13_AtMostOneHeld ==
    /\ flushed <= Len(out) /\ Len(out) <= flushed + 1
    /\ pc \notin {"flush", "noticeflush", "panic"} => flushed = Len(out)
C13_FlushFollowsWrite ==
    /\ (pc = "write" /\ out' # out) => pc' = "flush"
    /\ pc = "flush" => (flushed' = Len(out) \/ pc' = "panic")
    /\ pc = "flush" => (fetches' = fetches /\ stack' = stack /\ out' = out)
C13_NoBuffering ==
    /\ []C13_AtMostOneHeld
    /\ [][C13_FlushFollowsWrite]_vars

\* Inside "/a", after markup of the document and of "/a" has been written:
\* both chunks are flushed when the parser is asked for the next event.
C13_Witness ==
    /\ pc = "parse" /\ Len(stack) = 2 /\ Top = Frame("/a", 1)
    /\ out = <<Chunk(RootDoc, 1), Chunk("/a", 1)>>
    /\ flushed = 2

(***************************************************************************)
(* The requests the contract asks for while tokens i..n of stream d are    *)
(* rendered, in order, and the error that ends the rendering: for every    *)
(* include one request for src, and one for alt when src has failed and    *)
(* alt is present.                                                         *)
(***************************************************************************)
Attempts(inc) ==
    <<inc.src>> \o (IF SendResult(inc.src) # NoError THEN inc.alt ELSE <<>>)
Requests(l, e) == [log |-> l, err |-> e]
RECURSIVE RequestsRange(_, _, _)
RequestsRange(d, i, n) ==
    IF i > n THEN Requests(<<>>, NoError)
    ELSE LET tok == Stream(d)[i] IN
         IF tok.k = "xml" THEN RequestsRange(d, i + 1, n)
         ELSE IF ~IsInclude(tok) THEN Requests(<<>>, ParseTag(tok.attrs).err)
         ELSE LET inc == IncludeOf(tok) IN
              IF Resolved(inc) # <<>>
              THEN LET sub == RequestsRange(Resolved(inc)[1], 1,
                                            Len(Stream(Resolved(inc)[1]))) IN
                   IF sub.err # NoError
                   THEN Requests(Attempts(inc) \o sub.log, sub.err)
                   ELSE LET rest == RequestsRange(d, i + 1, n) IN
                        Requests(Attempts(inc) \o sub.log \o rest.log, rest.err)
              ELSE IF inc.coe
              THEN LET rest == RequestsRange(d, i + 1, n) IN
                   Requests(Attempts(inc) \o rest.log, rest.err)
              ELSE Requests(Attempts(inc), LastFetchError(inc))
ExpectedRequests == RequestsRange(RootDoc, 1, Len(root)).log

(***************************************************************************)
(* C14.  The only retry is the alt fallback.  A directive that is          *)
(* processed sends exactly one request for its src, in the step that       *)
(* follows its parsing; a request for alt is sent only from there, only    *)
(* when that src request has failed and alt is present, and exactly once;  *)
(* after the alt request, or after a src request that succeeded or has no  *)
(* alt, no further request is sent for the directive.  When execute_esi    *)
(* ends, the requests sent are a prefix of one src and at most one alt     *)
(* request per directive occurrence, and all of them when it returns with  *)
(* a sink that accepted what was written.                                  *)
(***************************************************************************)
C14_Attempt ==
    /\ pc = "src" => (fetches' = Append(fetches, ev.src) /\ pc' # "src")
    /\ pc = "alt" => (fetches' = Append(fetches, ev.alt[1]) /\ pc' \notin {"src", "alt"})
    /\ pc \notin {"src", "alt"} => fetches' = fetches
    /\ pc' = "src" => (pc = "parse" /\ ev' = IncludeOf(TokenAt(stack'[Len(stack')])))
    /\ pc' = "alt" =>
          /\ pc = "src" /\ ev' = ev /\ stack' = stack
          /\ ev.alt # <<>> /\ SendResult(ev.src) # NoError
    /\ (pc = "src" /\ SendResult(ev.src) = NoError) =>
          (pc' = "parse" /\ stack' = Append(stack, Frame(ev.src, 0)))
C14_Log ==
    pc \in {"done", "panic"} =>
        /\ IsPrefix(fetches, ExpectedRequests)
        /\ (Finished /\ sinkOk) => fetches = ExpectedRequests
C14_OnlyAltRetry ==
    /\ []C14_Log
    /\ [][C14_Attempt]_vars

\* Two directives: src "/a" fails and its alt "/b" is requested once; the
\* next directive names "/b" as src, which is requested anew.
C14_Witness ==
    /\ Finished /\ sinkOk /\ result = Ok
    /\ Len(root) = 2 /\ IsInclude(root[1]) /\ IsInclude(root[2])
    /\ IncludeOf(root[1]).src = "/a" /\ IncludeOf(root[1]).alt = <<"/b">>
    /\ IncludeOf(root[2]).src = "/b"
    /\ SendResult("/a") # NoError
    /\ fetches = <<"/a", "/b", "/b">>
    /\ out = <<Chunk("/b", 1), Chunk("/b", 1)>>

(***************************************************************************)
(* The URLs whose bodies the rendering of stream d gets to when every      *)
(* request succeeds: those its tags name as src, and so on.                *)
(***************************************************************************)
SrcOf(d) ==
    {IncludeOf(Stream(d)[i]).src : i \in {j \in DOMAIN Stream(d) : IsInclude(Stream(d)[j])}}
RECURSIVE ReachFrom(_)
ReachFrom(S) ==
    LET N == S \cup UNION {SrcOf(u) : u \in S} IN
    IF N = S THEN S ELSE ReachFrom(N)
Reach(d) == ReachFrom(SrcOf(d))
OnCycle(u) == u \in Reach(u)
\* The document leads into a cycle of fragments, and every request succeeds.
CycleRendered ==
    /\ EveryFetchSucceeds /\ EveryTagValid
    /\ \E u \in Reach(RootDoc) : OnCycle(u)

(***************************************************************************)
(* C15.  There is no cycle or depth guard.  When the document leads into   *)
(* a cycle of fragments and every request succeeds (the sink accepting     *)
(* what is written), execute_esi never returns, neither Ok nor an error,   *)
(* and no call returns an error; the rendering only ever stops where the   *)
(* model stops following the recursion, with a request to send at the      *)
(* depth MaxDepth; and every request for a fragment that is already being  *)
(* rendered enters it once more.                                           *)
(***************************************************************************)
C15_NoOutcome ==
    (CycleRendered /\ sinkOk) =>
        /\ pc \notin {"done", "notice", "noticeflush", "panic", "alt"}
        /\ result = NoError /\ err = NoError
        /\ stack # <<>>
        /\ ~ENABLED NextCyclic => (pc = "src" /\ Len(stack) = MaxDepth)
C15_Reentered ==
    (pc = "src" /\ SendResult(ev.src) = NoError) =>
        stack' = Append(stack, Frame(ev.src, 0))
C15_CycleRecursion ==
    /\ []C15_NoOutcome
    /\ [][C15_Reentered]_vars

\* "/a" includes "/b" and "/b" includes "/a": the calls nest a, b, a, ..
\* under the document's, one per request sent, and the next request is for
\* the other fragment again.
C15_Witness ==
    /\ CycleRendered /\ sinkOk
    /\ Len(stack) = MaxDepth /\ pc = "src"
    /\ \A k \in 2..MaxDepth : stack[k].doc = IF k % 2 = 0 THEN "/a" ELSE "/b"
    /\ ev.src # Top.doc
    /\ Len(fetches) = MaxDepth - 1

(***************************************************************************)
(* C16.  Every request passed to request_handler, for src and for alt and  *)
(* at every depth, is the client's request with no body, forced to pass,   *)
(* with the directive's URL as its URL and that URL's host as its Host     *)
(* header; the original_request of the outermost call is the client's      *)
(* request and that of every nested call is the client's request without   *)
(* its body, never the request of the enclosing fragment; and building     *)
(* and sending a request leaves the original_request of every active call  *)
(* as it was.                                                              *)
(***************************************************************************)
C16_FromOriginal ==
    /\ Len(requests) = Len(fetches)
    /\ \A i \in DOMAIN requests :
          requests[i] = [OriginalRequest EXCEPT !.url = fetches[i],
                                                !.host = HostOf(fetches[i]),
                                                !.body = FALSE,
                                                !.pass = TRUE]
    /\ Len(originals) = Len(stack)
    /\ \A k \in DOMAIN originals :
          originals[k] = IF k = 1 THEN OriginalRequest
                         ELSE [OriginalRequest EXCEPT !.body = FALSE]
C16_OriginalUnchanged ==
    /\ IsPrefix(requests, requests')
    /\ pc \in {"src", "alt"} =>
          /\ Len(requests') = Len(requests) + 1
          /\ IsPrefix(originals, originals')
C16_SubRequest ==
    /\ []C16_FromOriginal
    /\ [][C16_OriginalUnchanged]_vars

\* The body of "/a" is rendered by a nested call, and the request for "/b"
\* sent from there was built like the one for "/a".
C16_Witness ==
    /\ Len(stack) = 3 /\ pc = "parse"
    /\ fetches = <<"/a", "/b">>
    /\ requests = <<Request("/a", HostOf("/a"), FALSE, TRUE, "client"),
                    Request("/b", HostOf("/b"), FALSE, TRUE, "client")>>
    /\ originals[1].body /\ ~originals[2].body /\ ~originals[3].body

(***************************************************************************)
(* C17.  The notice is written at most once, and it is the last chunk of   *)
(* the output; it is written only by execute_esi, when every call of       *)
(* execute_esi_fragment has returned and the outermost has returned an     *)
(* error; nothing is written after it; and it is not in the output of a    *)
(* run that returns Ok, directives skipped under continue_on_error or not. *)
(***************************************************************************)
NoticeCount == Cardinality({i \in DOMAIN out : out[i] = ErrorNotice})
C17_AtMostOnce ==
    /\ NoticeCount <= 1
    /\ NoticeCount = 1 =>
          /\ Last(out) = ErrorNotice
          /\ stack = <<>> /\ err # NoError
          /\ pc \in {"noticeflush", "done", "panic"}
    /\ result = Ok => NoticeCount = 0
    /\ stack # <<>> => NoticeCount = 0
C17_OnlyTopLevel ==
    /\ (ErrorNotice \in Range(out') /\ ErrorNotice \notin Range(out)) =>
          (pc = "notice" /\ stack = <<>> /\ err # NoError)
    /\ ErrorNotice \in Range(out) => out' = out
    /\ pc' = "notice" => (pc = "return" /\ Len(stack) = 1 /\ err # NoError)
C17_NoticeOnce ==
    /\ []C17_AtMostOnce
    /\ [][C17_OnlyTopLevel]_vars

\* The request for "/b" fails inside the body of "/a", two calls deep: the
\* notice is written once, by execute_esi, after the markup of "/a".
C17_Witness ==
    /\ Finished /\ sinkOk /\ result = UnexpectedStatus(404)
    /\ fetches = <<"/a", "/b">>
    /\ Len(body["/a"]) = 2 /\ body["/a"][1].k = "xml"
    /\ NoticeCount = 1
    /\ out = <<Chunk("/a", 1), ErrorNotice>>

(***************************************************************************)
(* C18.  Over finite streams and an acyclic fragment graph, whatever the   *)
(* requests answer, every run ends: execute_esi returns, or the program    *)
(* has panicked on a sink that failed.  A run with a sink that accepts     *)
(* what is written ends with a return; what is returned is Ok or one       *)
(* error, it is set once and nothing happens after it; and each call       *)
(* moves through its stream forwards only, one event at a time, so no      *)
(* event of a call is processed twice.                                     *)
(***************************************************************************)
Ended == pc \in {"done", "panic"}
C18_Outcome ==
    /\ pc = "panic" => ~sinkOk
    /\ Finished <=> result # NoError
    /\ Finished => (stack = <<>> /\ ~ENABLED Next)
    /\ (Finished /\ result # Ok) =>
          result.e \in {"UnexpectedStatus", "RequestError", "XMLError",
                        "DuplicateTagAttribute", "MissingRequiredParameter"}
C18_Forward ==
    /\ result # NoError => result' = result
    /\ Len(stack') <= Len(stack) + 1
    /\ Len(stack') = Len(stack) + 1 => Last(stack').pos = 0
    /\ \A k \in DOMAIN stack : k \in DOMAIN stack' =>
          /\ stack'[k].doc = stack[k].doc
          /\ stack'[k].pos \in {stack[k].pos, stack[k].pos + 1}
          /\ stack'[k].pos <= Len(Stream(stack[k].doc))
          /\ stack'[k].pos = stack[k].pos + 1 => (k = Len(stack) /\ pc = "parse")
Failed(url) == net[url].k = "senderr" \/ net[url].status \notin 200..299
ErrorOf(url) ==
    IF net[url].k = "senderr" THEN RequestError
    ELSE [e |-> "UnexpectedStatus", a |-> net[url].status]

(***************************************************************************)
(* C19.  When a directive without continue_on_error gives up, the error    *)
(* returned is that of the last request sent for it: of the alt request    *)
(* when alt is present, of the src request when it is not.  A response     *)
(* with a status outside 2xx is reported as UnexpectedStatus with that     *)
(* status, a transport failure as RequestError; and the fetch error        *)
(* execute_esi returns is the error of the last request that was sent.     *)
(***************************************************************************)
C19_Raised ==
    (pc \in {"src", "alt"} /\ pc' = "return") =>
        /\ ~ev.coe
        /\ Last(fetches') = (IF ev.alt # <<>> THEN ev.alt[1] ELSE ev.src)
        /\ Failed(Last(fetches'))
        /\ err' = ErrorOf(Last(fetches'))
        /\ (pc = "alt") <=> (ev.alt # <<>>)
C19_Reported ==
    /\ (pc \in {"return", "notice", "noticeflush"} /\ IsFetchError(err)) =>
          (fetches # <<>> /\ Failed(Last(fetches)) /\ err = ErrorOf(Last(fetches)))
    /\ (Finished /\ IsFetchError(result)) =>
          /\ result = ErrorOf(Last(fetches))
          /\ result.e = "UnexpectedStatus" =>
                (net[Last(fetches)].k = "resp" /\ result.a = net[Last(fetches)].status)
C19_LastAttemptError ==
    /\ []C19_Reported
    /\ [][C19_Raised]_vars

\* The src request fails in transport and the alt request is answered 404:
\* the status of the alt response is what execute_esi returns.
C19_Witness ==
    /\ Finished /\ sinkOk
    /\ Len(root) = 2 /\ root[2].k = "xml"
    /\ IsInclude(root[1]) /\ IncludeOf(root[1]) = Include("/a", <<"/b">>, FALSE)
    /\ net["/a"].k = "senderr" /\ net["/b"] = [k |-> "resp", status |-> 404]
    /\ fetches = <<"/a", "/b">>
    /\ result = UnexpectedStatus(404)

=============================================================================
